---------------------------- MODULE Spec2Model ----------------------------
(***************************************************************************)
(* Thumbnail proxy worker (cf-cdn-test).  The repository holds three       *)
(* revisions of the worker entry point src/index.js:                       *)
(*   "index"    src/src/index.js      deadline race, animated -> delegate  *)
(*   "part_000" src/unnamed/part_000  deadline race, delegate disabled     *)
(*                                    (isAnimated && false), local         *)
(*                                    decodeAnimated instead               *)
(*   "part_001" src/unnamed/part_001  no deadline, no catch, animated ->   *)
(*                                    delegate with max-age=0              *)
(* One request is modelled from the call of the fetch handler to the       *)
(* settlement of every promise it created.  Each await of the pipeline is  *)
(* a suspension point: the action that resumes it draws the result of the  *)
(* external call (a value or a thrown error) and runs the synchronous code *)
(* up to the next await or return.  The deadline timer is a macrotask that *)
(* may run between any two resumptions.                                    *)
(***************************************************************************)
EXTENDS Integers, Sequences, FiniteSets, TLC

VARIABLES
    variant,    \* which revision of the worker runs
    pc,         \* the await the pipeline is suspended at, or "idle" / "done"
    calls,      \* the calls the pipeline has issued, in order
    id,         \* length of url.pathname.slice(1); -1 before it is computed
    upstream,   \* the origin response (ok, content-length header)
    buf,        \* the ArrayBuffer read from the origin response
    isAnimated, \* result of isAnimatedWebP(buf)
    r,          \* the delegate (edge transform) response
    src,        \* decoded image dimensions
    geom,       \* {w, h} computed by contain
    out,        \* bytes returned by encode
    result,     \* settlement of the pipeline promise
    timer,      \* the setTimeout of the deadline
    race,       \* settlement of Promise.race: who settled it
    response,   \* the Response the fetch handler resolved with
    respCount,  \* how many times the handler produced a response
    escaped,    \* the handler's promise rejected (error left the handler)
    scan,       \* one run of isAnimatedWebP, statement by statement
    fit         \* one call of contain: its arguments and its result

vars == <<variant, pc, calls, id, upstream, buf, isAnimated, r, src, geom, out,
          result, timer, race, response, respCount, escaped, scan, fit>>

-----------------------------------------------------------------------------
(* Program constants *)

Variants == {"index", "part_000", "part_001"}

TARGET(v) == IF v = "index" THEN 50 ELSE 160

MAX_IMAGE_SIZE(v) == IF v = "part_001" THEN 1024 * 1024 ELSE 2 * 1024 * 1024

MAX_DIMENSION == 2048

MAX_ID_LENGTH == 100

MAX_CHUNKS == 10

\* The revision wraps processRequest in Promise.race with a deadline and .catch
HasDeadline(v) == v \in {"index", "part_000"}

\* if (isAnimatedWebP(buf)) ...   vs   if (isAnimated && false) ...
DelegatesAnimated(v, animated) ==
    IF v = "part_000" THEN animated /\ FALSE ELSE animated

\* The revision awaits initWebpDecWasm / initWebpEncWasm and calls initResize
HasWasmInit(v) == v \in {"part_000", "part_001"}

IMMUTABLE == "public, max-age=31536000, immutable"

\* cache-control of the passthrough (delegated) response
DelegateCacheControl(v) == IF v = "index" THEN IMMUTABLE ELSE "public, max-age=0"

-----------------------------------------------------------------------------
(* Responses.  A body is a tuple of strings: the parts of the text, or a   *)
(* tag and the name of a byte buffer / stream.                             *)

NoResponse == [status |-> 0, body |-> <<>>, contentType |-> "", cacheControl |-> ""]

\* new Response(text, { status }) : a string body defaults to text/plain
TextResponse(text, status) ==
    [status |-> status, body |-> <<text>>,
     contentType |-> "text/plain;charset=UTF-8", cacheControl |-> ""]

TimeoutResponse ==
    [status |-> 408, body |-> <<"Request processing timeout">>,
     contentType |-> "text/plain", cacheControl |-> ""]

ErrorResponse(message) ==
    [status |-> 500, body |-> <<"Processing error: ", message>>,
     contentType |-> "text/plain", cacheControl |-> ""]

\* new Response(r.body, { headers, status: r.status })
PassthroughResponse(v, dr) ==
    [status |-> dr.status, body |-> <<"stream", dr.body>>,
     contentType |-> "image/webp", cacheControl |-> DelegateCacheControl(v)]

\* new Response(out, { headers }) with the passthrough branch's short cache policy
EncodedResponseShortCache(bytes) ==
    [status |-> 200, body |-> <<"bytes", bytes>>,
     contentType |-> "image/webp", cacheControl |-> "public, max-age=0"]

\* new Response(out, { headers })  : status defaults to 200
EncodedResponse(bytes) ==
    [status |-> 200, body |-> <<"bytes", bytes>>,
     contentType |-> "image/webp", cacheControl |-> IMMUTABLE]

\* .catch(error => ...) of the fetch handler
CatchHandler(message) ==
    IF message = "Request timeout" THEN TimeoutResponse ELSE ErrorResponse(message)

-----------------------------------------------------------------------------
(* parseInt(contentLength): a header value is a tuple of one-character     *)
(* strings.  ECMAScript parseInt skips leading white space, takes a sign,  *)
(* switches to radix 16 on a 0x prefix, and converts the longest prefix of *)
(* digits; with no digit the result is NaN.                                *)

DigitValue(c) ==
    CASE c = "0" -> 0 [] c = "1" -> 1 [] c = "2" -> 2 [] c = "3" -> 3
      [] c = "4" -> 4 [] c = "5" -> 5 [] c = "6" -> 6 [] c = "7" -> 7
      [] c = "8" -> 8 [] c = "9" -> 9 [] c = "a" -> 10 [] c = "b" -> 11
      [] c = "c" -> 12 [] c = "d" -> 13 [] c = "e" -> 14 [] c = "f" -> 15
      [] OTHER -> 99

RECURSIVE ParseDigits(_, _, _, _, _)
ParseDigits(s, i, radix, acc, any) ==
    IF i > Len(s) \/ DigitValue(s[i]) >= radix
    THEN [isNaN |-> ~any, value |-> acc]
    ELSE ParseDigits(s, i + 1, radix, acc * radix + DigitValue(s[i]), TRUE)

RECURSIVE SkipWhiteSpace(_, _)
SkipWhiteSpace(s, i) ==
    IF i <= Len(s) /\ s[i] = " " THEN SkipWhiteSpace(s, i + 1) ELSE i

parseInt(s) ==
    LET i0 == SkipWhiteSpace(s, 1)
        neg == i0 <= Len(s) /\ s[i0] = "-"
        i1 == IF i0 <= Len(s) /\ s[i0] \in {"-", "+"} THEN i0 + 1 ELSE i0
        hex == i1 + 1 <= Len(s) /\ s[i1] = "0" /\ s[i1 + 1] \in {"x", "X"}
        n == IF hex THEN ParseDigits(s, i1 + 2, 16, 0, FALSE)
                    ELSE ParseDigits(s, i1, 10, 0, FALSE)
    IN [isNaN |-> n.isNaN, value |-> IF neg THEN 0 - n.value ELSE n.value]

NoHeader == [present |-> FALSE, chars |-> <<>>]

HeaderOf(chars) == [present |-> TRUE, chars |-> chars]

\* contentLength && parseInt(contentLength) > MAX_IMAGE_SIZE, with the cap off by one
DeclaredTooLargeOffByOne(v, h) ==
    /\ h.present /\ h.chars # <<>>
    /\ ~parseInt(h.chars).isNaN
    /\ parseInt(h.chars).value > MAX_IMAGE_SIZE(v) + 1

\* contentLength && parseInt(contentLength) > MAX_IMAGE_SIZE
DeclaredTooLarge(v, h) ==
    /\ h.present /\ h.chars # <<>>
    /\ ~parseInt(h.chars).isNaN
    /\ parseInt(h.chars).value > MAX_IMAGE_SIZE(v)

\* if (!upstream.ok) return ..., with the check dropped
UpstreamFailedIgnored(ok) == FALSE

\* !upstream.ok
UpstreamFailed(ok) == ~ok

\* buf.byteLength > MAX_IMAGE_SIZE, guard dropped
ActualTooLargeDropped(v, b) == FALSE

\* buf.byteLength > MAX_IMAGE_SIZE
ActualTooLarge(v, b) == b.byteLength > MAX_IMAGE_SIZE(v)

\* width > MAX_DIMENSION || height > MAX_DIMENSION, written with && instead
DimensionsTooLargeBoth(width, height) == width > MAX_DIMENSION /\ height > MAX_DIMENSION

\* width > MAX_DIMENSION || height > MAX_DIMENSION
DimensionsTooLarge(width, height) == width > MAX_DIMENSION \/ height > MAX_DIMENSION

\* !id || id.length > 100, with the length test dropped
InvalidIdNoLength(len) == len = 0

\* !id || id.length > 100
InvalidId(len) == len = 0 \/ len > MAX_ID_LENGTH

-----------------------------------------------------------------------------
(* isAnimatedWebP(arrayBuffer).  A buffer is [byteLength, u8]; u8 is the   *)
(* tuple of its bytes.  JavaScript indexes from 0: U8(u8, k) is u8[k], and *)
(* a read past the end yields undefined, which the bit operators take as 0.*)

U8(u8, k) == IF 0 <= k /\ k < Len(u8) THEN u8[k + 1] ELSE 0

\* u8[i+4] | (u8[i+5] << 8) | (u8[i+6] << 16) | (u8[i+7] << 24) as an int32
ChunkSize(u8, i) ==
    LET b3 == U8(u8, i + 7)
        top == IF b3 >= 128 THEN b3 - 256 ELSE b3
    IN U8(u8, i + 4) + U8(u8, i + 5) * 256 + U8(u8, i + 6) * 65536 + top * 16777216

IsVP8X(u8, i) ==
    U8(u8, i) = 86 /\ U8(u8, i + 1) = 80 /\ U8(u8, i + 2) = 56 /\ U8(u8, i + 3) = 88

\* (flags & 0x01) !== 0 : the wrong bit
AnimationFlagBit0(flags) == flags % 2 = 1

\* (flags & 0x02) !== 0
AnimationFlag(flags) == (flags \div 2) % 2 = 1

\* while (i + 8 <= u8.length), the cap on the number of chunks left out
LoopConditionNoCap(u8, i, chunkCount) == i + 8 <= Len(u8)

\* while (i + 8 <= u8.length && chunkCount < MAX_CHUNKS)
LoopCondition(u8, i, chunkCount) == i + 8 <= Len(u8) /\ chunkCount < MAX_CHUNKS

\* size > arrayBuffer.byteLength : the test of the sign left out
InvalidChunkSizeNoSign(size, byteLength) == size > byteLength

\* size < 0 || size > arrayBuffer.byteLength
InvalidChunkSize(size, byteLength) == size < 0 \/ size > byteLength

\* i += 8 + size + (size & 1)
NextChunk(i, size) == i + 8 + size + (size % 2)

RECURSIVE ScanChunks(_, _, _, _)
ScanChunks(u8, byteLength, i, chunkCount) ==
    IF ~LoopCondition(u8, i, chunkCount) THEN FALSE
    ELSE LET size == ChunkSize(u8, i) IN
         IF InvalidChunkSize(size, byteLength) THEN FALSE
         ELSE IF IsVP8X(u8, i) THEN AnimationFlag(U8(u8, i + 8))
         ELSE ScanChunks(u8, byteLength, NextChunk(i, size), chunkCount + 1)

\* u8[0..3] === 'RIFF'
ContainerTagOk(u8) ==
    U8(u8, 0) = 82 /\ U8(u8, 1) = 73 /\ U8(u8, 2) = 70 /\ U8(u8, 3) = 70

\* the test of u8[8..11] left out
FormatTagOkSkipped(u8) == TRUE

\* u8[8..11] === 'WEBP'
FormatTagOk(u8) ==
    U8(u8, 8) = 87 /\ U8(u8, 9) = 69 /\ U8(u8, 10) = 66 /\ U8(u8, 11) = 80

isAnimatedWebP(b) ==
    LET u8 == b.u8 IN
    IF Len(u8) < 16 THEN FALSE
    ELSE IF ~ContainerTagOk(u8) THEN FALSE
    ELSE IF ~FormatTagOk(u8) THEN FALSE
    ELSE ScanChunks(u8, b.byteLength, 12, 0)

-----------------------------------------------------------------------------
(* contain(w, h, maxW, maxH): s = min(maxW / w, maxH / h) and              *)
(* max(1, round(w * s)), max(1, round(h * s)).  Math.round rounds half up: *)
(* round(p / q) = floor((2p + q) / 2q) for q > 0.                          *)

Max(a, b) == IF a >= b THEN a ELSE b

RoundDiv(p, q) == (2 * p + q) \div (2 * q)

\* Math.min(maxW / w, maxH / h) is maxW / w
WidthBindsCover(w, h, maxW, maxH) == maxW * h >= maxH * w
WidthBinds(w, h, maxW, maxH) == maxW * h <= maxH * w

contain(w, h, maxW, maxH) ==
    IF WidthBinds(w, h, maxW, maxH)
    THEN [w |-> Max(1, RoundDiv(w * maxW, w)), h |-> Max(1, RoundDiv(h * maxW, w))]
    ELSE [w |-> Max(1, RoundDiv(w * maxH, h)), h |-> Max(1, RoundDiv(h * maxH, h))]

(* The same in double arithmetic.  s = sn / sd is held exactly when the    *)
(* quotient is a binary fraction; otherwise s is the nearest double, and   *)
(* a product k * s whose exact value is n + 1/2 may come out just below    *)
(* n + 1/2 (Math.round gives n) or not below it (Math.round gives n + 1).  *)
(* Any other exact value is further from a rounding boundary than the      *)
(* error of a double, for the magnitudes used here.                        *)

RECURSIVE GCD(_, _)
GCD(a, b) == IF b = 0 THEN a ELSE GCD(b, a % b)

RECURSIVE IsPowerOfTwo(_)
IsPowerOfTwo(n) == n = 1 \/ (n > 1 /\ n % 2 = 0 /\ IsPowerOfTwo(n \div 2))

ExactQuotient(sn, sd) == IsPowerOfTwo(sd \div GCD(sn, sd))

\* The values Math.round(k * s) may take
RoundOutcomes(k, sn, sd) ==
    LET p == k * sn IN
    IF (2 * p) % sd = 0 /\ p % sd # 0 /\ ~ExactQuotient(sn, sd)
    THEN {p \div sd, p \div sd + 1}
    ELSE {RoundDiv(p, sd)}

containResults(w, h, maxW, maxH) ==
    LET sn == IF WidthBinds(w, h, maxW, maxH) THEN maxW ELSE maxH
        sd == IF WidthBinds(w, h, maxW, maxH) THEN w ELSE h
    IN  { [w |-> Max(1, rw), h |-> Max(1, rh)] :
              rw \in RoundOutcomes(w, sn, sd), rh \in RoundOutcomes(h, sn, sd) }

-----------------------------------------------------------------------------
(* Inputs: what the request, the origin, the delegate and the codecs may   *)
(* hand to the worker.                                                     *)

\* id.length of the requests tried: empty, shortest, longest valid, too long
IdLengths == {0, 1, MAX_ID_LENGTH, MAX_ID_LENGTH + 1}

\* messages of the errors an external call may throw
ErrorMessages == {"boom", "Request timeout"}

\* content-length headers the origin may send: absent, empty, at and above
\* either revision's cap, not a number, hexadecimal, exponent notation
ContentLengths ==
    { NoHeader,
      HeaderOf(<<>>),
      HeaderOf(<<"0">>),
      HeaderOf(<<"1","0","4","8","5","7","6">>),
      HeaderOf(<<"1","0","4","8","5","7","7">>),
      HeaderOf(<<"2","0","9","7","1","5","2">>),
      HeaderOf(<<"2","0","9","7","1","5","3">>),
      HeaderOf(<<"0","x","2","0","0","0","0","1">>),
      HeaderOf(<<"3","e","9">>),
      HeaderOf(<<"x">>) }

RIFF == <<82, 73, 70, 70>>
WEBP == <<87, 69, 66, 80>>

\* RIFF....WEBP VP8X len=10 flags=0x02 (animation)
AnimatedPayload ==
    RIFF \o <<0, 0, 0, 0>> \o WEBP \o <<86, 80, 56, 88>> \o <<10, 0, 0, 0>> \o <<2>>

\* RIFF....WEBP VP8X len=10 flags=0x10 (alpha only)
StaticExtendedPayload ==
    RIFF \o <<0, 0, 0, 0>> \o WEBP \o <<86, 80, 56, 88>> \o <<10, 0, 0, 0>> \o <<16>>

\* RIFF....WEBP "VP8 " len=0
StaticSimplePayload ==
    RIFF \o <<0, 0, 0, 0>> \o WEBP \o <<86, 80, 56, 32>> \o <<0, 0, 0, 0>>

BufferOf(u8) == [byteLength |-> Len(u8), u8 |-> u8]

\* A body one byte over the cap of revision v.  Its bytes are not enumerated:
\* u8 is left empty, so the sniffer sees no container in it.
OversizeBuffer(v) == [byteLength |-> MAX_IMAGE_SIZE(v) + 1, u8 |-> <<>>]

Payloads(v) ==
    { BufferOf(AnimatedPayload), BufferOf(StaticExtendedPayload),
      BufferOf(StaticSimplePayload), BufferOf(<<1, 2, 3>>), OversizeBuffer(v) }

DelegateStatuses == {200, 404}
DelegateBodies == {"delegate-body-1", "delegate-body-2"}

\* widths and heights decode may report: smallest, ordinary, at and above the cap
Dimensions == {1, 64, MAX_DIMENSION, MAX_DIMENSION + 1}

EncodedOutputs == {"encoded-1", "encoded-2"}

-----------------------------------------------------------------------------
(* Promise plumbing *)

Pending == [kind |-> "pending", resp |-> NoResponse, message |-> ""]
Resolved(resp) == [kind |-> "resolved", resp |-> resp, message |-> ""]
Rejected(message) == [kind |-> "rejected", resp |-> NoResponse, message |-> message]

\* The promise returned by the fetch handler settles with o
Deliver(o) ==
    IF o.kind = "resolved"
    THEN response' = o.resp /\ respCount' = respCount + 1 /\ UNCHANGED escaped
    ELSE escaped' = TRUE /\ UNCHANGED <<response, respCount>>

\* What .catch makes of a settlement of the race
Caught(o) == IF o.kind = "rejected" THEN Resolved(CatchHandler(o.message)) ELSE o

\* A race that reacts to every settlement of its inputs, not only the first
RaceSettlesEveryTime(who, o) ==
    /\ race' = IF race = "pending" THEN who ELSE race
    /\ Deliver(Caught(o))

\* Promise.race([...]).catch(...): only the first settlement of an input counts
RaceSettles(who, o) ==
    IF race = "pending"
    THEN race' = who /\ Deliver(Caught(o))
    ELSE UNCHANGED <<race, response, respCount, escaped>>

\* processRequest returns or throws: its promise settles with o
PipelineSettles(o) ==
    /\ result' = o
    /\ pc' = "done"
    /\ UNCHANGED calls
    /\ IF HasDeadline(variant) THEN RaceSettles("pipeline", o)
       ELSE race' = race /\ Deliver(o)

\* A pipeline that issues every call a second time
SuspendReissuing(cs, next) ==
    /\ calls' = calls \o cs \o cs
    /\ pc' = next
    /\ UNCHANGED <<result, race, response, respCount, escaped>>

\* processRequest issues the calls cs and suspends at the await named next
Suspend(cs, next) ==
    /\ calls' = calls \o cs
    /\ pc' = next
    /\ UNCHANGED <<result, race, response, respCount, escaped>>

-----------------------------------------------------------------------------
(* State *)

NoUpstream == [received |-> FALSE, ok |-> FALSE, contentLength |-> NoHeader]
NoBuffer == [byteLength |-> 0, u8 |-> <<>>]
NoDelegate == [status |-> 0, body |-> ""]
NoImage == [width |-> 0, height |-> 0]
NoGeometry == [w |-> 0, h |-> 0]

\* No run of isAnimatedWebP / contain is being followed on its own
NoScan == [u8 |-> <<>>, pc |-> "off", i |-> 0, chunkCount |-> 0, exit |-> "", animated |-> FALSE]
NoFit == [w |-> 0, h |-> 0, maxW |-> 0, maxH |-> 0, pc |-> "off", res |-> NoGeometry]

\* The state of a request before the fetch handler is called
RequestInit ==
    /\ pc = "idle"
    /\ calls = <<>>
    /\ id = -1
    /\ upstream = NoUpstream
    /\ buf = NoBuffer
    /\ isAnimated = FALSE
    /\ r = NoDelegate
    /\ src = NoImage
    /\ geom = NoGeometry
    /\ out = ""
    /\ result = Pending
    /\ timer = "unset"
    /\ race = IF HasDeadline(variant) THEN "pending" ELSE "none"
    /\ response = NoResponse
    /\ respCount = 0
    /\ escaped = FALSE

Init ==
    /\ variant \in Variants
    /\ RequestInit
    /\ scan = NoScan
    /\ fit = NoFit

data == <<id, upstream, buf, isAnimated, r, src, geom, out>>

\* The variables of the runs of the pure functions followed on their own
pure == <<scan, fit>>

-----------------------------------------------------------------------------
(* The fetch handler is called.  processRequest(request) runs synchronously *)
(* up to its first await (the origin fetch) or its first return/throw, and  *)
(* only then is the deadline timer created.  request.url of a Request is    *)
(* an absolute URL and the origin URL is built from its path, so neither    *)
(* new URL(...) throws.                                                     *)

Start ==
    /\ pc = "idle"
    /\ timer' = IF HasDeadline(variant) THEN "armed" ELSE timer
    /\ \E len \in IdLengths :
         /\ id' = len
         /\ IF InvalidId(len)
            THEN PipelineSettles(Resolved(TextResponse("Invalid emoji ID", 400)))
            ELSE Suspend(<<"originFetch">>, "originFetch")
    /\ UNCHANGED <<upstream, buf, isAnimated, r, src, geom, out>>
    /\ UNCHANGED <<variant, pure>>

\* setTimeout(() => reject(new Error('Request timeout')), PROCESSING_TIMEOUT)
TimerFires ==
    /\ timer = "armed"
    /\ timer' = "fired"
    /\ RaceSettles("timer", Rejected("Request timeout"))
    /\ UNCHANGED <<variant, pc, calls, result, pure>>
    /\ UNCHANGED data

\* await fetch(origin.toString()) returns or throws
OriginFetchReturns ==
    /\ pc = "originFetch"
    /\ \/ \E m \in ErrorMessages :
            /\ PipelineSettles(Rejected(m))
            /\ UNCHANGED data
       \/ \E ok \in BOOLEAN, h \in ContentLengths :
            /\ upstream' = [received |-> TRUE, ok |-> ok, contentLength |-> h]
            /\ IF UpstreamFailed(ok)
               THEN PipelineSettles(Resolved(TextResponse("upstream error", 502)))
               ELSE IF DeclaredTooLarge(variant, h)
               THEN PipelineSettles(Resolved(TextResponse("Image too large", 413)))
               ELSE Suspend(<<"arrayBuffer">>, "arrayBuffer")
            /\ UNCHANGED <<id, buf, isAnimated, r, src, geom, out>>
    /\ UNCHANGED <<variant, timer, pure>>

\* The first decode-side call of the static (local) branch
LocalBranch ==
    IF HasWasmInit(variant)
    THEN Suspend(<<"isAnimatedWebP", "initWebpDecWasm">>, "initWebpDecWasm")
    ELSE Suspend(<<"isAnimatedWebP", "decodeWebP">>, "decode")

\* await upstream.arrayBuffer() returns or throws
ArrayBufferReturns ==
    /\ pc = "arrayBuffer"
    /\ \/ \E m \in ErrorMessages :
            /\ PipelineSettles(Rejected(m))
            /\ UNCHANGED data
       \/ \E b \in Payloads(variant) :
            /\ buf' = b
            /\ IF ActualTooLarge(variant, b)
               THEN /\ PipelineSettles(Resolved(TextResponse("Image too large", 413)))
                    /\ UNCHANGED isAnimated
               ELSE /\ isAnimated' = isAnimatedWebP(b)
                    /\ IF DelegatesAnimated(variant, isAnimatedWebP(b))
                       THEN Suspend(<<"isAnimatedWebP", "delegateFetch">>, "delegateFetch")
                       ELSE LocalBranch
            /\ UNCHANGED <<id, upstream, r, src, geom, out>>
    /\ UNCHANGED <<variant, timer, pure>>

\* await fetch(origin.toString(), { cf: { image: ... } }) returns or throws
DelegateFetchReturns ==
    /\ pc = "delegateFetch"
    /\ \/ \E m \in ErrorMessages :
            /\ PipelineSettles(Rejected(m))
            /\ UNCHANGED data
       \/ \E st \in DelegateStatuses, body \in DelegateBodies :
            /\ r' = [status |-> st, body |-> body]
            /\ PipelineSettles(Resolved(PassthroughResponse(variant, [status |-> st, body |-> body])))
            /\ UNCHANGED <<id, upstream, buf, isAnimated, src, geom, out>>
    /\ UNCHANGED <<variant, timer, pure>>

\* await initWebpDecWasm(WEBP_DEC_WASM) returns or throws
InitDecReturns ==
    /\ pc = "initWebpDecWasm"
    /\ \/ \E m \in ErrorMessages : PipelineSettles(Rejected(m))
       \/ IF variant = "part_000" /\ isAnimated
          THEN Suspend(<<"decodeAnimated">>, "decode")
          ELSE Suspend(<<"decodeWebP">>, "decode")
    /\ UNCHANGED <<variant, timer, pure>>
    /\ UNCHANGED data

\* The code from the decoded image to the await of resize
AfterDecode(width, height) ==
    /\ src' = [width |-> width, height |-> height]
    /\ IF DimensionsTooLarge(width, height)
       THEN /\ PipelineSettles(Resolved(TextResponse("Image dimensions too large", 413)))
            /\ UNCHANGED geom
       ELSE /\ geom' = contain(width, height, TARGET(variant), TARGET(variant))
            /\ IF HasWasmInit(variant)
               THEN Suspend(<<"contain", "initResize", "resize">>, "resize")
               ELSE Suspend(<<"contain", "resize">>, "resize")

\* decodeAnimated returns an array of frames and the code reads src[0].imageData,
\* which throws a TypeError on an empty array; decodeWebP returns one image
FrameCounts(v, animated) == IF v = "part_000" /\ animated THEN {0, 1, 2} ELSE {1}

\* await decodeWebP(buf) / await decodeAnimated(buf) returns or throws
DecodeReturns ==
    /\ pc = "decode"
    /\ \/ \E m \in ErrorMessages :
            /\ PipelineSettles(Rejected(m))
            /\ UNCHANGED data
       \/ \E frames \in FrameCounts(variant, isAnimated) :
            IF frames = 0
            THEN /\ PipelineSettles(Rejected("Cannot read properties of undefined"))
                 /\ UNCHANGED data
            ELSE \E width \in Dimensions, height \in Dimensions :
                   /\ AfterDecode(width, height)
                   /\ UNCHANGED <<id, upstream, buf, isAnimated, r, out>>
    /\ UNCHANGED <<variant, timer, pure>>

\* await resize(src, { width: w, height: h, method }) returns or throws
ResizeReturns ==
    /\ pc = "resize"
    /\ \/ \E m \in ErrorMessages : PipelineSettles(Rejected(m))
       \/ IF HasWasmInit(variant)
          THEN Suspend(<<"initWebpEncWasm">>, "initWebpEncWasm")
          ELSE Suspend(<<"encodeWebP">>, "encode")
    /\ UNCHANGED <<variant, timer, pure>>
    /\ UNCHANGED data

\* await initWebpEncWasm(WEBP_ENC_WASM) returns or throws
InitEncReturns ==
    /\ pc = "initWebpEncWasm"
    /\ \/ \E m \in ErrorMessages : PipelineSettles(Rejected(m))
       \/ Suspend(<<"encodeWebP">>, "encode")
    /\ UNCHANGED <<variant, timer, pure>>
    /\ UNCHANGED data

\* await encodeWebP(resized, { quality, effort }) returns or throws
EncodeReturns ==
    /\ pc = "encode"
    /\ \/ \E m \in ErrorMessages :
            /\ PipelineSettles(Rejected(m))
            /\ UNCHANGED data
       \/ \E bytes \in EncodedOutputs :
            /\ out' = bytes
            /\ PipelineSettles(Resolved(EncodedResponse(bytes)))
            /\ UNCHANGED <<id, upstream, buf, isAnimated, r, src, geom>>
    /\ UNCHANGED <<variant, timer, pure>>

Next ==
    \/ Start
    \/ TimerFires
    \/ OriginFetchReturns
    \/ ArrayBufferReturns
    \/ DelegateFetchReturns
    \/ InitDecReturns
    \/ DecodeReturns
    \/ ResizeReturns
    \/ InitEncReturns
    \/ EncodeReturns

Spec == Init /\ [][Next]_vars

-----------------------------------------------------------------------------
(* isAnimatedWebP followed statement by statement on buffers of its own.   *)
(* scan.exit names the return statement taken: "short" (length < 16),      *)
(* "tag" (a tag differs), "end" (the while condition is false), "size"     *)
(* (invalid chunk size), "vp8x" (the flags of a VP8X chunk).               *)

request == <<variant, pc, calls, id, upstream, buf, isAnimated, r, src, geom, out,
             result, timer, race, response, respCount, escaped>>

Returned(why, animated) == [scan EXCEPT !.pc = "done", !.exit = why, !.animated = animated]

\* From the call to the first evaluation of the while condition
ScanEnter ==
    /\ scan.pc = "enter"
    /\ scan' = IF Len(scan.u8) < 16 THEN Returned("short", FALSE)
               ELSE IF ~ContainerTagOk(scan.u8) THEN Returned("tag", FALSE)
               ELSE IF ~FormatTagOk(scan.u8) THEN Returned("tag", FALSE)
               ELSE [scan EXCEPT !.pc = "loop", !.i = 12, !.chunkCount = 0]
    /\ UNCHANGED <<request, fit>>

\* One evaluation of the while condition and, if it holds, of the loop body
ScanIterate ==
    /\ scan.pc = "loop"
    /\ scan' = IF ~LoopCondition(scan.u8, scan.i, scan.chunkCount) THEN Returned("end", FALSE)
               ELSE LET size == ChunkSize(scan.u8, scan.i) IN
                    IF InvalidChunkSize(size, Len(scan.u8)) THEN Returned("size", FALSE)
                    ELSE IF IsVP8X(scan.u8, scan.i)
                    THEN Returned("vp8x", AnimationFlag(U8(scan.u8, scan.i + 8)))
                    ELSE [scan EXCEPT !.i = NextChunk(scan.i, size),
                                      !.chunkCount = scan.chunkCount + 1]
    /\ UNCHANGED <<request, fit>>

\* Buffers tried: a 12-byte header, a run of small chunks, a last chunk
MaxFill == 12

GoodHeader == RIFF \o <<0, 0, 0, 0>> \o WEBP
BadContainerHeader == <<82, 73, 70, 88>> \o <<0, 0, 0, 0>> \o WEBP
BadFormatHeader == RIFF \o <<0, 0, 0, 0>> \o <<87, 69, 66, 88>>

\* "ABCD" chunks of declared length 0 and 1 (one payload byte, one pad byte)
Filler0 == <<65, 66, 67, 68, 0, 0, 0, 0>>
Filler1 == <<65, 66, 67, 68, 1, 0, 0, 0, 7, 0>>

RECURSIVE FillerRun(_, _)
FillerRun(kind, n) ==
    IF n = 0 THEN <<>>
    ELSE FillerRun(kind, n - 1) \o
         (IF kind = "zero" \/ (kind = "mixed" /\ n % 2 = 1) THEN Filler0 ELSE Filler1)

FillerRuns == { FillerRun(kind, n) : kind \in {"zero", "one", "mixed"}, n \in 0..MaxFill }

\* A whole VP8X chunk: declared length 10, 10 payload bytes, the first the flags
VP8XChunk(flags) == <<86, 80, 56, 88, 10, 0, 0, 0, flags>> \o <<0, 0, 0, 1, 0, 0, 1, 0, 0>>

LastChunks ==
    { <<>> } \cup
    { VP8XChunk(flags) : flags \in 0..255 } \cup
    { \* VP8X cut after its flags byte: declared length 10, one byte left
      <<86, 80, 56, 88, 10, 0, 0, 0, 2>>, <<86, 80, 56, 88, 10, 0, 0, 0, 0>>,
      \* VP8X header at the very end of the buffer, no payload at all
      <<86, 80, 56, 88, 0, 0, 0, 0>>, <<86, 80, 56, 88, 10, 0, 0, 0>>,
      \* VP8X declaring more than the whole buffer, and a length with the top bit set
      <<86, 80, 56, 88, 255, 0, 0, 0, 2>>, <<86, 80, 56, 88, 10, 0, 0, 128, 2>>,
      \* another chunk declaring more than what is left, then more than the buffer
      <<65, 66, 67, 68, 10, 0, 0, 0, 2>>, <<65, 66, 67, 68, 255, 0, 0, 0, 2>>,
      <<65, 66, 67, 68, 0, 0, 0, 128, 2>>,
      \* lengths with every bit set: -1 as an int32
      <<86, 80, 56, 88, 255, 255, 255, 255, 2>>, <<65, 66, 67, 68, 255, 255, 255, 255, 2>> }

\* Every prefix of a small animated file, the empty buffer included
ShortInputs ==
    { SubSeq(GoodHeader \o VP8XChunk(2), 1, n) : n \in 0..Len(GoodHeader \o VP8XChunk(2)) }

ScanInputs ==
    { GoodHeader \o run \o last : run \in FillerRuns, last \in LastChunks } \cup
    { h \o run \o VP8XChunk(2) : h \in {BadContainerHeader, BadFormatHeader},
                                  run \in {<<>>, Filler0, Filler1} } \cup
    ShortInputs

InitScan ==
    /\ variant = "index"
    /\ RequestInit
    /\ fit = NoFit
    /\ \E u8 \in ScanInputs : scan = [NoScan EXCEPT !.u8 = u8, !.pc = "enter"]

NextScan ==
    \/ ScanEnter
    \/ ScanIterate

SpecScan == InitScan /\ [][NextScan]_vars

-----------------------------------------------------------------------------
(* contain called on arguments of its own: fit holds the arguments, then   *)
(* the value returned.                                                     *)

MaxSource == 12
MaxBox == 6

\* Source sizes and boxes tried: every small one, and the ones the worker uses
SourceSizes == (1..MaxSource) \cup {64, 2048}
BoxSizes == (1..MaxBox) \cup {TARGET("index"), TARGET("part_000")}

ContainApply ==
    /\ fit.pc = "call"
    /\ \E g \in containResults(fit.w, fit.h, fit.maxW, fit.maxH) :
           fit' = [fit EXCEPT !.pc = "done", !.res = g]
    /\ UNCHANGED <<request, scan>>

InitContain ==
    /\ variant = "index"
    /\ RequestInit
    /\ scan = NoScan
    /\ \E w \in SourceSizes, h \in SourceSizes, maxW \in BoxSizes, maxH \in BoxSizes :
           fit = [w |-> w, h |-> h, maxW |-> maxW, maxH |-> maxH, pc |-> "call", res |-> NoGeometry]

NextContain == ContainApply

SpecContain == InitContain /\ [][NextContain]_vars

\* The runtime calls the handler and runs a timer that was set; nothing makes
\* an external call return.
SpecLive == Spec /\ WF_vars(Start) /\ WF_vars(TimerFires)

-----------------------------------------------------------------------------
(* Vocabulary of the properties *)

Called(c) == \E k \in 1..Len(calls) : calls[k] = c

\* The header is a well-formed Content-Length (1*DIGIT)
IsDecimal(h) ==
    h.present /\ h.chars # <<>> /\ \A k \in 1..Len(h.chars) : h.chars[k] \in
        {"0", "1", "2", "3", "4", "5", "6", "7", "8", "9"}

\* The decimal value of a header of at most 9 digits
RECURSIVE DecimalValue(_, _)
DecimalValue(chars, n) ==
    IF n = 0 THEN 0
    ELSE 10 * DecimalValue(chars, n - 1) +
         (CHOOSE d \in 0..9 : <<"0", "1", "2", "3", "4", "5", "6", "7", "8", "9">>[d + 1] = chars[n])

NetworkCalls == {"originFetch", "delegateFetch"}
LocalCodecCalls == {"initWebpDecWasm", "decodeWebP", "decodeAnimated", "initResize",
                    "resize", "initWebpEncWasm", "encodeWebP"}

\* The deadline fired while the pipeline was still running
DeadlineWon == race = "timer"

-----------------------------------------------------------------------------
(* C1: a request whose identifier is empty or longer than 100 characters   *)
(* is answered 400 "Invalid emoji ID", exactly once, and no network call   *)
(* (origin fetch or delegate fetch) is ever issued for it, not even after  *)
(* the deadline timer fires later.                                         *)
C1_BadRequestBeforeNetwork ==
    (id = 0 \/ id > 100) =>
        /\ response.status = 400
        /\ response.body = <<"Invalid emoji ID">>
        /\ respCount = 1
        /\ ~escaped
        /\ \A c \in NetworkCalls : ~Called(c)
        /\ calls = <<>>

C1_Witness ==
    /\ id = 101
    /\ response.status = 400
    /\ calls = <<>>
    /\ HasDeadline(variant) => timer = "fired"

(* C2: when the deadline timer fires while the pipeline is still running,  *)
(* the handler answers 408, and that is the one and only response of the   *)
(* request: a later completion of the pipeline (a response or a thrown     *)
(* error) neither replaces it nor adds a second one.  No revision ever     *)
(* produces more than one response.                                        *)
C2_TimeoutExactlyOneResponse ==
    /\ respCount <= 1
    /\ DeadlineWon =>
        /\ response = TimeoutResponse
        /\ response.status = 408
        /\ respCount = 1
        /\ ~escaped

C2_Witness ==
    /\ DeadlineWon
    /\ pc = "done"
    /\ result.kind = "resolved"
    /\ result.resp.status = 200
    /\ response.status = 408
    /\ respCount = 1

C2_WitnessLateFailure ==
    /\ DeadlineWon
    /\ pc = "done"
    /\ result.kind = "rejected"
    /\ response.status = 408
    /\ respCount = 1

(* C3: when the origin answers with a success status and a Content-Length  *)
(* whose decimal value is above the revision's byte cap, the pipeline ends *)
(* with 413 "Image too large" without reading the body: after the origin   *)
(* fetch no call at all is issued (no arrayBuffer, no classification, no   *)
(* decode).  The handler's response is that 413 unless the deadline had    *)
(* already fired before the origin answered (then it is the 408 of C2).    *)
C3_DeclaredTooLargeNoBodyRead ==
    (/\ upstream.received /\ upstream.ok
     /\ IsDecimal(upstream.contentLength)
     /\ DecimalValue(upstream.contentLength.chars, Len(upstream.contentLength.chars))
            > MAX_IMAGE_SIZE(variant)) =>
        /\ pc = "done"
        /\ result = Resolved(TextResponse("Image too large", 413))
        /\ calls = <<"originFetch">>
        /\ ~Called("arrayBuffer") /\ ~Called("isAnimatedWebP")
        /\ buf = NoBuffer
        /\ ~DeadlineWon => (response.status = 413 /\ respCount = 1)

C3_Witness ==
    /\ upstream.received /\ upstream.ok
    /\ upstream.contentLength = HeaderOf(<<"2","0","9","7","1","5","3">>)
    /\ variant = "index"
    /\ response.status = 413
    /\ calls = <<"originFetch">>

(* C4: when the body read from the origin is larger than the byte cap,     *)
(* whatever Content-Length was declared (none, one within the cap, a wrong *)
(* one), the pipeline ends with 413 "Image too large" and the bytes go no  *)
(* further: no classification, no decode, no delegation.  The handler's    *)
(* response is that 413 unless the deadline had already fired.             *)
C4_ActualTooLargeNotHandedOn ==
    buf.byteLength > MAX_IMAGE_SIZE(variant) =>
        /\ pc = "done"
        /\ result = Resolved(TextResponse("Image too large", 413))
        /\ calls = <<"originFetch", "arrayBuffer">>
        /\ ~Called("isAnimatedWebP") /\ ~Called("delegateFetch")
        /\ \A c \in LocalCodecCalls : ~Called(c)
        /\ ~DeadlineWon => (response.status = 413 /\ respCount = 1)

C4_Witness ==
    /\ buf.byteLength > MAX_IMAGE_SIZE(variant)
    /\ upstream.contentLength = HeaderOf(<<"0">>)
    /\ response.status = 413

C4_WitnessNoHeader ==
    /\ buf.byteLength > MAX_IMAGE_SIZE(variant)
    /\ upstream.contentLength = NoHeader
    /\ response.status = 413

(* C5: when decode reports a width or a height above 2048, the pipeline    *)
(* ends with 413 "Image dimensions too large" and neither contain, resize  *)
(* nor encode is invoked.  The handler's response is that 413 unless the   *)
(* deadline had already fired.                                             *)
C5_DimensionsTooLargeNoResize ==
    (src.width > 2048 \/ src.height > 2048) =>
        /\ pc = "done"
        /\ result = Resolved(TextResponse("Image dimensions too large", 413))
        /\ ~Called("resize") /\ ~Called("encodeWebP")
        /\ ~Called("initResize") /\ ~Called("initWebpEncWasm")
        /\ geom = NoGeometry /\ out = ""
        /\ ~DeadlineWon => (response.status = 413 /\ respCount = 1)

C5_Witness ==
    /\ src.width = 64 /\ src.height = 2049
    /\ response.status = 413
    /\ response.body = <<"Image dimensions too large">>

(* C6: when the fetched payload is classified as animated, the request is  *)
(* delegated to the edge transform (the next call after the classification *)
(* is the delegate fetch) and no local decode, resize or encode call is    *)
(* ever issued.                                                            *)
C6_AnimatedIsDelegated ==
    (Called("isAnimatedWebP") /\ isAnimated) =>
        /\ Called("delegateFetch")
        /\ \A c \in LocalCodecCalls : ~Called(c)

(* C7: on the delegated path the pipeline's response carries the           *)
(* delegate's body and the delegate's status (success or not), the         *)
(* content-type image/webp and a short cache-control policy, never the     *)
(* long-lived immutable policy of locally encoded output.                  *)
C7_PassthroughShortCache ==
    (Called("delegateFetch") /\ pc = "done" /\ result.kind = "resolved") =>
        /\ result.resp.body = <<"stream", r.body>>
        /\ result.resp.status = r.status
        /\ result.resp.contentType = "image/webp"
        /\ result.resp.cacheControl # "public, max-age=31536000, immutable"
        /\ ~DeadlineWon => response = result.resp

(* C8: when decode, the dimension guard, resize and encode have all        *)
(* succeeded before the deadline, the one response of the request has      *)
(* status 200, content-type image/webp, the long-lived immutable           *)
(* cache-control policy, and a body that is exactly the bytes encode       *)
(* returned.                                                               *)
C8_EncodedSuccessResponse ==
    (out # "" /\ ~DeadlineWon) =>
        /\ pc = "done"
        /\ respCount = 1
        /\ ~escaped
        /\ response.status = 200
        /\ response.contentType = "image/webp"
        /\ response.cacheControl = "public, max-age=31536000, immutable"
        /\ response.body = <<"bytes", out>>

C8_Witness ==
    /\ ~isAnimated
    /\ Called("decodeWebP") /\ Called("resize") /\ Called("encodeWebP")
    /\ src = [width |-> 64, height |-> 2048]
    /\ out = "encoded-2"
    /\ response.status = 200
    /\ response.body = <<"bytes", "encoded-2">>

(* C9: when the origin fetch returns a non-success status, the pipeline    *)
(* ends with 502 "upstream error"; the origin body is never read and no    *)
(* classification, decode or delegation happens.  The handler's response   *)
(* is that 502 unless the deadline had already fired.                      *)
C9_UpstreamErrorNoBodyRead ==
    (upstream.received /\ ~upstream.ok) =>
        /\ pc = "done"
        /\ result = Resolved(TextResponse("upstream error", 502))
        /\ calls = <<"originFetch">>
        /\ ~Called("arrayBuffer") /\ ~Called("isAnimatedWebP") /\ ~Called("delegateFetch")
        /\ \A c \in LocalCodecCalls : ~Called(c)
        /\ buf = NoBuffer
        /\ ~DeadlineWon => (response.status = 502 /\ respCount = 1)

C9_Witness ==
    /\ upstream.received /\ ~upstream.ok
    /\ upstream.contentLength = HeaderOf(<<"2","0","9","7","1","5","3">>)
    /\ response.status = 502
    /\ response.body = <<"upstream error">>

(* C10: an error thrown by any pipeline step before the deadline is        *)
(* answered with status 500 and a body holding the error's message, and    *)
(* never leaves the handler as a rejection.                                *)
C10_FailureIsInternalError ==
    (result.kind = "rejected" /\ ~DeadlineWon) =>
        /\ response.status = 500
        /\ response.body = <<"Processing error: ", result.message>>
        /\ respCount = 1
        /\ ~escaped

(* C11: every request reaches a terminal state (the pipeline settled, or   *)
(* the deadline fired) with exactly one response produced and no error     *)
(* left unanswered.                                                        *)
C11_TerminalStateAnswered ==
    (pc = "done" \/ timer = "fired") => (respCount = 1 /\ ~escaped)

(* C11, for the revisions that set a deadline: if the timer eventually     *)
(* fires, a response is eventually produced even when an external call     *)
(* never returns, and no second one ever is.                               *)
C11_DeadlineRevisionsAnswer ==
    HasDeadline(variant) => (<>(respCount = 1) /\ [](respCount <= 1 /\ ~escaped))

-----------------------------------------------------------------------------
(* Vocabulary of the properties of isAnimatedWebP: the container as the    *)
(* format describes it, read off the bytes without the scan's limits.      *)

\* The buffer starts with the tags 'RIFF' .... 'WEBP'
HasBothTags(u8) ==
    /\ Len(u8) >= 12
    /\ SubSeq(u8, 1, 4) = <<82, 73, 70, 70>>
    /\ SubSeq(u8, 9, 12) = <<87, 69, 66, 80>>

\* The chunk header at offset i carries the type 'VP8X'
TypeIsVP8X(u8, i) == SubSeq(u8, i + 1, i + 4) = <<86, 80, 56, 88>>

\* The declared length at offset i as the unsigned 32-bit number the format
\* means, or -1 when it is 2^31 or more (larger than any buffer tried)
DeclaredChunkLength(u8, i) ==
    IF u8[i + 8] >= 128 THEN -1
    ELSE u8[i + 5] + 256 * u8[i + 6] + 65536 * u8[i + 7] + 16777216 * u8[i + 8]

\* The chunk at offset i lies in the buffer with all its declared bytes
WholeChunk(u8, i) ==
    DeclaredChunkLength(u8, i) >= 0 /\ i + 8 + DeclaredChunkLength(u8, i) <= Len(u8)

\* The first VP8X chunk met when walking the chunks from offset i, the n-th
\* chunk of the container (counted from 0): where it is and which one it is.
\* The container holds it when it is whole and has a first payload byte.
RECURSIVE FindVP8X(_, _, _)
FindVP8X(u8, i, n) ==
    IF i + 8 > Len(u8) THEN [found |-> FALSE, at |-> 0, index |-> 0]
    ELSE IF TypeIsVP8X(u8, i)
    THEN [found |-> WholeChunk(u8, i) /\ DeclaredChunkLength(u8, i) >= 1, at |-> i, index |-> n]
    ELSE IF DeclaredChunkLength(u8, i) < 0 THEN [found |-> FALSE, at |-> 0, index |-> 0]
    ELSE FindVP8X(u8, i + 8 + DeclaredChunkLength(u8, i) + (DeclaredChunkLength(u8, i) % 2), n + 1)

ScannedVP8X == FindVP8X(scan.u8, 12, 0)

\* Bit 1 (mask 0x02) of a byte
Bit1(byte) == (byte \div 2) % 2 = 1

\* How many chunk headers the run has read
ChunksExamined == scan.chunkCount + (IF scan.exit \in {"size", "vp8x"} THEN 1 ELSE 0)

(* C12: isAnimatedWebP reads at most 10 chunk headers whatever the buffer  *)
(* holds (runs of 11 and more chunks of length 0 or 1 included), it always *)
(* returns, and what it returns is the value the bytes determine.          *)
C12_AtMostTenChunks ==
    /\ ChunksExamined <= 10
    /\ scan.chunkCount <= 10
    /\ scan.pc \in {"enter", "loop"} => ENABLED NextScan
    /\ scan.pc = "done" => scan.animated = isAnimatedWebP(BufferOf(scan.u8))

\* Eleven chunks of length 0 and an animated VP8X chunk behind them: the scan
\* stops at the cap with chunks still ahead of it
C12_Witness ==
    /\ scan.pc = "done"
    /\ scan.exit = "end"
    /\ scan.chunkCount = 10
    /\ scan.i + 8 <= Len(scan.u8)
    /\ Len(scan.u8) = 12 + 11 * 8 + 18
    /\ ~scan.animated

(* C13 as stated: for a buffer with both tags that holds a VP8X chunk,     *)
(* isAnimatedWebP returns true when bit 1 of that chunk's first payload    *)
(* byte is set and false when it is clear.                                 *)
C13_ExtendedChunkDecides ==
    (/\ scan.pc = "done"
     /\ HasBothTags(scan.u8)
     /\ ScannedVP8X.found
     /\ ScannedVP8X.at + 8 < Len(scan.u8)) =>
        scan.animated = Bit1(scan.u8[ScannedVP8X.at + 9])

(* C13 amended: for a buffer with both tags that holds a VP8X chunk among  *)
(* its first 10 chunks, isAnimatedWebP returns true when bit 1 of that     *)
(* chunk's first payload byte is set and false when it is clear, whatever  *)
(* the other seven bits are; behind 10 or more chunks it returns false.    *)
C13_ExtendedChunkDecidesWithinScan ==
    (/\ scan.pc = "done"
     /\ HasBothTags(scan.u8)
     /\ ScannedVP8X.found
     /\ ScannedVP8X.at + 8 < Len(scan.u8)) =>
        scan.animated =
            (Bit1(scan.u8[ScannedVP8X.at + 9]) /\ ScannedVP8X.index < 10)

\* The tenth chunk is a VP8X chunk with every flag bit set
C13_Witness ==
    /\ scan.pc = "done"
    /\ HasBothTags(scan.u8)
    /\ ScannedVP8X.found
    /\ ScannedVP8X.index = 9
    /\ ScannedVP8X.at + 8 < Len(scan.u8)
    /\ scan.u8[ScannedVP8X.at + 9] = 255
    /\ scan.animated

\* The first chunk is a VP8X chunk with every flag bit set but bit 1
C13_WitnessClear ==
    /\ scan.pc = "done"
    /\ ScannedVP8X.found
    /\ ScannedVP8X.index = 0
    /\ ScannedVP8X.at + 8 < Len(scan.u8)
    /\ scan.u8[ScannedVP8X.at + 9] = 253
    /\ ~scan.animated

(* C14: for every buffer shorter than 16 bytes (the empty one included)    *)
(* and every buffer whose container tag or format tag is wrong,            *)
(* isAnimatedWebP returns false from the checks before the loop: no chunk  *)
(* header is read.                                                         *)
C14_FailsClosed ==
    (Len(scan.u8) < 16 \/ ~HasBothTags(scan.u8)) =>
        /\ scan.pc # "loop"
        /\ scan.chunkCount = 0
        /\ ChunksExamined = 0
        /\ scan.pc = "enter" => ENABLED ScanEnter
        /\ scan.pc = "done" => (~scan.animated /\ scan.exit \in {"short", "tag"})

\* A wrong format tag in front of an animated VP8X chunk
C14_Witness ==
    /\ scan.pc = "done"
    /\ scan.u8 = BadFormatHeader \o VP8XChunk(2)
    /\ scan.exit = "tag"
    /\ ~scan.animated

\* A buffer of 15 bytes with both tags
C14_WitnessShort ==
    /\ scan.pc = "done"
    /\ Len(scan.u8) = 15
    /\ HasBothTags(scan.u8)
    /\ scan.exit = "short"
    /\ ~scan.animated

-----------------------------------------------------------------------------
(* C15: for all positive integer source sizes and boxes, contain returns   *)
(* w and h with 1 <= w <= maxW and 1 <= h <= maxH, and w = maxW or         *)
(* h = maxH.                                                               *)

C15_FitsAndTouches ==
    fit.pc = "done" =>
        /\ 1 <= fit.res.w /\ fit.res.w <= fit.maxW
        /\ 1 <= fit.res.h /\ fit.res.h <= fit.maxH
        /\ (fit.res.w = fit.maxW \/ fit.res.h = fit.maxH)
        /\ contain(fit.w, fit.h, fit.maxW, fit.maxH)
               \in containResults(fit.w, fit.h, fit.maxW, fit.maxH)

\* A source so flat that h * s rounds to 0 and is raised to 1
C15_Witness ==
    /\ fit.pc = "done"
    /\ 2 * fit.h * fit.maxW < fit.w
    /\ fit.maxH > 1
    /\ fit.res = [w |-> fit.maxW, h |-> 1]

\* A product that is exactly n + 1/2 with an inexact s, rounded down
C15_WitnessHalf ==
    /\ fit.pc = "done"
    /\ fit.w = 6 /\ fit.h = 3 /\ fit.maxW = 1
    /\ fit.res = [w |-> 1, h |-> 1]
    /\ RoundDiv(fit.h * fit.maxW, fit.w) = 1 /\ Cardinality(RoundOutcomes(3, 1, 6)) = 2

-----------------------------------------------------------------------------
(* C16: when the scan examines a chunk whose declared length exceeds the   *)
(* bytes left after the chunk's 8-byte header, it examines no further      *)
(* chunk and the result is not-animated, whatever the type of the chunk,   *)
(* VP8X included.                                                          *)

\* The run is about to read the chunk header at scan.i
Examines == scan.pc = "loop" /\ LoopCondition(scan.u8, scan.i, scan.chunkCount)

C16_OverrunStopsNotAnimated ==
    [][(Examines /\ ~WholeChunk(scan.u8, scan.i)) =>
           /\ ~scan'.animated
           /\ ~Examines']_vars

-----------------------------------------------------------------------------
(* The external calls of a request, in the order they were issued: the     *)
(* call log without the synchronous helpers (isAnimatedWebP, contain) and  *)
(* without the one-time set-up of a codec, which belongs to the codec's    *)
(* call.  Both decoders are the decode capability.                         *)

IsExternal(c) ==
    c \in {"originFetch", "arrayBuffer", "delegateFetch", "decodeWebP", "decodeAnimated",
           "resize", "encodeWebP"}

Capability(c) ==
    CASE c = "originFetch" -> "origin fetch"
      [] c = "arrayBuffer" -> "body read"
      [] c = "delegateFetch" -> "delegate fetch"
      [] c \in {"decodeWebP", "decodeAnimated"} -> "decode"
      [] c = "resize" -> "resize"
      [] c = "encodeWebP" -> "encode"

ExternalCalls ==
    LET log == SelectSeq(calls, IsExternal)
    IN  [k \in 1..Len(log) |-> Capability(log[k])]

LocalSequence == <<"origin fetch", "body read", "decode", "resize", "encode">>
DelegateSequence == <<"origin fetch", "body read", "delegate fetch">>

IsPrefix(s, t) == Len(s) <= Len(t) /\ s = SubSeq(t, 1, Len(s))

(* C17: once the deadline has produced the Timeout outcome, the abandoned  *)
(* pipeline starts no further external call.                               *)
C17_NoCallAfterTimeout ==
    [][DeadlineWon => ExternalCalls' = ExternalCalls]_vars

(* C18: the external calls of a request are a prefix of (origin fetch,     *)
(* body read, decode, resize, encode) or of (origin fetch, body read,      *)
(* delegate fetch): each at most once, in order, none retried.             *)
C18_CallsFormPrefix ==
    \/ IsPrefix(ExternalCalls, LocalSequence)
    \/ IsPrefix(ExternalCalls, DelegateSequence)

\* The whole local sequence was issued and the request is over
C18_Witness == pc = "done" /\ ExternalCalls = LocalSequence

\* The whole delegate sequence was issued and the request is over
C18_WitnessDelegate == pc = "done" /\ ExternalCalls = DelegateSequence

\* A call failed and nothing was issued after it
C18_WitnessFailure ==
    /\ pc = "done" /\ result.kind = "rejected"
    /\ ExternalCalls = <<"origin fetch", "body read", "decode">>

(* C19: a 408 response is produced only when the deadline timer fired      *)
(* before the pipeline finished; a failure of the pipeline before the      *)
(* deadline is never answered 408, whatever the message of its error.      *)
C19_TimeoutOnlyFromTimer ==
    response.status = 408 => (race = "timer" /\ timer = "fired")

(* C20: when the pipeline finishes before the deadline, the timer stays    *)
(* set and fires later, and its firing changes nothing: the response       *)
(* already produced stays the only one, with the same status and body.     *)
C20_LateTimerChangesNothing ==
    /\ [](race = "pipeline" => (timer \in {"armed", "fired"} /\ respCount = 1 /\ ~escaped))
    /\ (race = "pipeline" ~> timer = "fired")
    /\ [][race = "pipeline" =>
             (race' = race /\ response' = response /\ respCount' = respCount
                /\ escaped' = escaped)]_vars

\* The pipeline answered first and the timer has fired since
C20_Witness ==
    /\ race = "pipeline" /\ timer = "fired"
    /\ respCount = 1 /\ response = result.resp /\ response.status = 200

-----------------------------------------------------------------------------
(* C21: a chunk length whose top bit is set is read as a negative 32-bit   *)
(* integer and rejected as invalid, so the result is not-animated; and on  *)
(* every iteration that continues the loop the scan offset strictly        *)
(* increases.                                                              *)

\* The most significant bit of the little-endian length at offset i is set
TopBitSet(u8, i) == U8(u8, i + 7) >= 128

C21_TopBitRejectedOffsetIncreases ==
    [][Examines =>
           /\ TopBitSet(scan.u8, scan.i) =>
                  /\ ChunkSize(scan.u8, scan.i) < 0
                  /\ scan'.pc = "done" /\ scan'.exit = "size" /\ ~scan'.animated
           /\ scan'.pc = "loop" => scan'.i > scan.i]_vars

\* After some chunks were passed, a VP8X chunk with the animation bit set
\* and a top-bit length was rejected
C21_Witness ==
    /\ scan.pc = "done" /\ scan.exit = "size" /\ ~scan.animated
    /\ scan.chunkCount >= 2 /\ scan.i > 12
    /\ TopBitSet(scan.u8, scan.i) /\ ChunkSize(scan.u8, scan.i) < 0
    /\ TypeIsVP8X(scan.u8, scan.i) /\ Bit1(U8(scan.u8, scan.i + 8))

\* The same for a length of 0xFFFFFFFF, read as -1
C21_WitnessMinusOne ==
    /\ scan.pc = "done" /\ scan.exit = "size"
    /\ ChunkSize(scan.u8, scan.i) = -1

=============================================================================
